---- MODULE Spec2Model ----
(***************************************************************************)
(* Text adapters for the date/time types of psycopg3                       *)
(* (psycopg3/types/date.py): the dumpers that encode date, time, datetime   *)
(* and timedelta values, and the loaders that decode date, time, timetz,    *)
(* timestamp, timestamptz and interval texts according to the session's     *)
(* DateStyle and IntervalStyle parameters.                                  *)
(*                                                                         *)
(* A byte string is a sequence of one-byte strings; "xFF" stands for the    *)
(* byte 0xFF, the representative of the bytes outside ASCII.  A str is a    *)
(* sequence of one-character strings; "uFFFD" is the replacement character. *)
(* The interpreter is CPython 3.7 or later (sys.version_info >= (3, 7)), so *)
(* the _load_py36 variants are never bound.  TimeDumper and DateTimeDumper  *)
(* encode str(obj) as DateDumper does and read no session parameter; they  *)
(* are left out.                                                            *)
(***************************************************************************)
EXTENDS Integers, Sequences, FiniteSets, TLC

VARIABLES
    DateStyle,      \* the session's DateStyle as pgconn.parameter_status reports it
    IntervalStyle,  \* the session's IntervalStyle, likewise
    adapter,        \* the Dumper / Loader instance under study
    result          \* the outcome of the call in progress, NoCall when idle

vars == <<DateStyle, IntervalStyle, adapter, result>>

(***************************************************************************)
(* bytes and str primitives                                                 *)
(***************************************************************************)
Digits == <<"0", "1", "2", "3", "4", "5", "6", "7", "8", "9">>

IsDigit(c) == \E i \in 1..10 : Digits[i] = c

DigitVal(c) == (CHOOSE i \in 1..10 : Digits[i] = c) - 1

AllDigits(s) == \A i \in 1..Len(s) : IsDigit(s[i])

\* \s of the re module, on the bytes the model uses
IsSpace(c) == c = " "

\* str.lower() / re.IGNORECASE on the letters the model uses
Lower(c) ==
    CASE c = "A" -> "a" [] c = "B" -> "b" [] c = "C" -> "c" [] c = "D" -> "d"
      [] c = "E" -> "e" [] c = "F" -> "f" [] c = "G" -> "g" [] c = "H" -> "h"
      [] c = "I" -> "i" [] c = "J" -> "j" [] c = "L" -> "l" [] c = "M" -> "m"
      [] c = "N" -> "n" [] c = "O" -> "o" [] c = "P" -> "p" [] c = "R" -> "r"
      [] c = "S" -> "s" [] c = "T" -> "t" [] c = "U" -> "u" [] c = "V" -> "v"
      [] c = "W" -> "w" [] c = "Y" -> "y" [] c = "Z" -> "z"
      [] OTHER -> c

LowerAll(s) == [i \in 1..Len(s) |-> Lower(s[i])]

Drop(s, n) == SubSeq(s, n + 1, Len(s))

Take(s, n) == SubSeq(s, 1, n)

\* bytes.startswith / bytes.endswith
StartsWith(s, p) == Len(s) >= Len(p) /\ Take(s, Len(p)) = p

EndsWith(s, p) == Len(s) >= Len(p) /\ Drop(s, Len(s) - Len(p)) = p

\* codecs.lookup("ascii").decode and bytes.decode('ascii'): fails on a byte >= 0x80
IsAscii(data) == \A i \in 1..Len(data) : data[i] # "xFF"

\* bytes.decode('utf8', 'replace')
DecodeReplace(data) == [i \in 1..Len(data) |-> IF data[i] = "xFF" THEN "uFFFD" ELSE data[i]]

\* bytes.split(sep) for a one-byte separator: the parts, empty ones included
RECURSIVE SplitOn(_, _, _)
SplitOn(s, sep, cur) ==
    IF s = <<>> THEN <<cur>>
    ELSE IF s[1] = sep THEN <<cur>> \o SplitOn(Tail(s), sep, <<>>)
    ELSE SplitOn(Tail(s), sep, Append(cur, s[1]))

Split(s, sep) == SplitOn(s, sep, <<>>)

\* bytes.split(): split on runs of whitespace, no empty parts
RECURSIVE SplitSpace(_, _)
SplitSpace(s, cur) ==
    IF s = <<>> THEN (IF cur = <<>> THEN <<>> ELSE <<cur>>)
    ELSE IF IsSpace(s[1])
         THEN (IF cur = <<>> THEN <<>> ELSE <<cur>>) \o SplitSpace(Tail(s), <<>>)
    ELSE SplitSpace(Tail(s), Append(cur, s[1]))

SplitWhitespace(s) == SplitSpace(s, <<>>)

\* bytes.find(b".", start) >= 0, start counted from 0
FindFrom(s, c, start) == \E i \in (start + 1)..Len(s) : s[i] = c

Contains(s, c) == FindFrom(s, c, 0)

\* max(map(len, parts))
MaxLen(parts) == CHOOSE n \in {Len(parts[i]) : i \in 1..Len(parts)} :
                    \A i \in 1..Len(parts) : Len(parts[i]) <= n

\* int() of a string of decimal digits
RECURSIVE DigitsToInt(_, _)
DigitsToInt(s, acc) ==
    IF s = <<>> THEN acc ELSE DigitsToInt(Tail(s), 10 * acc + DigitVal(s[1]))

Int10(s) == DigitsToInt(s, 0)

\* int() of [-+]?\d+
SignedInt(s) ==
    IF s[1] = "-" THEN 0 - Int10(Tail(s))
    ELSE IF s[1] = "+" THEN Int10(Tail(s))
    ELSE Int10(s)

\* "%d" % n for n >= 0
RECURSIVE NatStr(_)
NatStr(n) == IF n < 10 THEN <<Digits[n + 1]>> ELSE Append(NatStr(n \div 10), Digits[(n % 10) + 1])

\* "%0<w>d" % n for n >= 0
RECURSIVE ZeroPad(_, _)
ZeroPad(s, w) == IF Len(s) >= w THEN s ELSE ZeroPad(<<"0">> \o s, w)

Pad(n, w) == ZeroPad(NatStr(n), w)

\* "%+d" % n
SignedStr(n) == IF n < 0 THEN <<"-">> \o NatStr(0 - n) ELSE <<"+">> \o NatStr(n)

\* "%d" % n
IntStr(n) == IF n < 0 THEN <<"-">> \o NatStr(0 - n) ELSE NatStr(n)

\* The run of leading bytes of s that satisfy a digit test / a space test
RECURSIVE DigitRun(_)
DigitRun(s) == IF s # <<>> /\ IsDigit(s[1]) THEN 1 + DigitRun(Tail(s)) ELSE 0

RECURSIVE SpaceRun(_)
SpaceRun(s) == IF s # <<>> /\ IsSpace(s[1]) THEN 1 + SpaceRun(Tail(s)) ELSE 0

(***************************************************************************)
(* Outcomes of a call: a returned value or a raised exception.              *)
(***************************************************************************)
None == [type |-> "None"]

Return(v) == [kind |-> "ok", value |-> v, msg |-> <<>>]

Raise(exc, message) == [kind |-> exc, value |-> None, msg |-> message]

(***************************************************************************)
(* datetime: the calendar, datetime.strptime and str() of the values        *)
(***************************************************************************)
IsLeap(y) == y % 4 = 0 /\ (y % 100 # 0 \/ y % 400 = 0)

DaysInMonth(y, m) ==
    IF m = 2 THEN (IF IsLeap(y) THEN 29 ELSE 28)
    ELSE IF m \in {4, 6, 9, 11} THEN 30 ELSE 31

\* locale_time.a_weekday and locale_time.a_month[1:] of the C locale
WeekdayNames == <<<<"m", "o", "n">>, <<"t", "u", "e">>, <<"w", "e", "d">>, <<"t", "h", "u">>, <<"f", "r", "i">>, <<"s", "a", "t">>, <<"s", "u", "n">>>>

MonthNames == <<<<"j", "a", "n">>, <<"f", "e", "b">>, <<"m", "a", "r">>, <<"a", "p", "r">>, <<"m", "a", "y">>, <<"j", "u", "n">>,
                <<"j", "u", "l">>, <<"a", "u", "g">>, <<"s", "e", "p">>, <<"o", "c", "t">>, <<"n", "o", "v">>, <<"d", "e", "c">>>>

InSeq(w, names) == \E i \in 1..Len(names) : names[i] = w

IndexOf(w, names) == CHOOSE i \in 1..Len(names) : names[i] = w

\* The length of the match of
\*     [+-]\d\d:?[0-5]\d(:?[0-5]\d(\.\d{1,6})?)?|(?-i:Z)
\* at the start of s, 0 when there is none.  The quantifiers are greedy.
ZFractionLen(s) ==
    IF Len(s) >= 2 /\ s[1] = "." /\ IsDigit(s[2])
    THEN 1 + (IF DigitRun(Tail(s)) > 6 THEN 6 ELSE DigitRun(Tail(s)))
    ELSE 0

ZSecondsLen(s) ==
    LET c == IF s # <<>> /\ s[1] = ":" THEN 1 ELSE 0
        t == Drop(s, c)
    IN  IF Len(t) >= 2 /\ t[1] \in {"0", "1", "2", "3", "4", "5"} /\ IsDigit(t[2])
        THEN c + 2 + ZFractionLen(Drop(t, 2))
        ELSE 0

ZLen(s) ==
    IF s # <<>> /\ s[1] = "Z" THEN 1
    ELSE IF Len(s) >= 3 /\ s[1] \in {"+", "-"} /\ IsDigit(s[2]) /\ IsDigit(s[3])
    THEN LET c == IF Len(s) >= 4 /\ s[4] = ":" THEN 1 ELSE 0
             t == Drop(s, 3 + c)
         IN  IF Len(t) >= 2 /\ t[1] \in {"0", "1", "2", "3", "4", "5"} /\ IsDigit(t[2])
             THEN 3 + c + 2 + ZSecondsLen(Drop(t, 2))
             ELSE 0
    ELSE 0

\* The candidate lengths of a directive's match, in the order the alternatives
\* of its regular expression are tried (TimeRE.__init__).
DirectiveLens(c, s) ==
    CASE c = "Y" -> <<4>>
      [] c \in {"m", "d", "H", "M", "S"} -> <<2, 1>>
      [] c = "f" -> <<6, 5, 4, 3, 2, 1>>
      [] c \in {"a", "b"} -> <<3>>
      [] c = "z" -> <<ZLen(s)>>
      [] OTHER -> <<>>

\* Whether the word w is matched by the regular expression of directive c
DirectiveAccepts(c, w) ==
    CASE c = "Y" -> AllDigits(w)
      [] c = "m" -> IF Len(w) = 2
                    THEN (w[1] = "1" /\ w[2] \in {"0", "1", "2"})
                         \/ (w[1] = "0" /\ IsDigit(w[2]) /\ w[2] # "0")
                    ELSE IsDigit(w[1]) /\ w[1] # "0"
      [] c = "d" -> IF Len(w) = 2
                    THEN (w[1] = "3" /\ w[2] \in {"0", "1"})
                         \/ (w[1] \in {"1", "2"} /\ IsDigit(w[2]))
                         \/ (w[1] \in {"0", " "} /\ IsDigit(w[2]) /\ w[2] # "0")
                    ELSE IsDigit(w[1]) /\ w[1] # "0"
      [] c = "H" -> IF Len(w) = 2
                    THEN (w[1] = "2" /\ w[2] \in {"0", "1", "2", "3"})
                         \/ (w[1] \in {"0", "1"} /\ IsDigit(w[2]))
                    ELSE IsDigit(w[1])
      [] c = "M" -> IF Len(w) = 2
                    THEN w[1] \in {"0", "1", "2", "3", "4", "5"} /\ IsDigit(w[2])
                    ELSE IsDigit(w[1])
      [] c = "S" -> IF Len(w) = 2
                    THEN (w[1] = "6" /\ w[2] \in {"0", "1"})
                         \/ (w[1] \in {"0", "1", "2", "3", "4", "5"} /\ IsDigit(w[2]))
                    ELSE IsDigit(w[1])
      [] c = "f" -> AllDigits(w)
      [] c = "a" -> InSeq(LowerAll(w), WeekdayNames)
      [] c = "b" -> InSeq(LowerAll(w), MonthNames)
      [] c = "z" -> Len(w) > 0
      [] OTHER -> FALSE

NoMatch == [ok |-> FALSE]

NothingFound == [Y |-> <<>>, m |-> <<>>, d |-> <<>>, H |-> <<>>, M |-> <<>>, S |-> <<>>,
                 f |-> <<>>, z |-> <<>>, a |-> <<>>, b |-> <<>>]

\* format_regex.match(data_string): the compiled format (TimeRE.pattern) matched
\* at the start of s by backtracking; white space in the format is \s+, letters
\* are compared ignoring case.  The match need not reach the end of s.
\* The first alternative if it matches, the next one otherwise
OrElse(r, next) == IF r.ok THEN r ELSE next

RECURSIVE RegexMatch(_, _, _), RegexDirective(_, _, _, _, _), RegexSpaces(_, _, _, _)
RegexMatch(fmt, s, found) ==
    IF fmt = <<>> THEN [ok |-> TRUE, found |-> found, rest |-> s]
    ELSE IF fmt[1] = "%"
    THEN RegexDirective(fmt[2], Drop(fmt, 2), s, found, DirectiveLens(fmt[2], s))
    ELSE IF IsSpace(fmt[1])
    THEN RegexSpaces(Tail(fmt), s, found, SpaceRun(s))
    ELSE IF s # <<>> /\ Lower(s[1]) = Lower(fmt[1])
    THEN RegexMatch(Tail(fmt), Tail(s), found)
    ELSE NoMatch

RegexDirective(c, fmt, s, found, lens) ==
    IF lens = <<>> THEN NoMatch
    ELSE OrElse(IF lens[1] > 0 /\ Len(s) >= lens[1] /\ DirectiveAccepts(c, Take(s, lens[1]))
                THEN RegexMatch(fmt, Drop(s, lens[1]), [found EXCEPT ![c] = Take(s, lens[1])])
                ELSE NoMatch,
                RegexDirective(c, fmt, s, found, Tail(lens)))

RegexSpaces(fmt, s, found, n) ==
    IF n < 1 THEN NoMatch
    ELSE OrElse(RegexMatch(fmt, Drop(s, n), found), RegexSpaces(fmt, s, found, n - 1))

NoZone == [aware |-> FALSE, seconds |-> 0, microseconds |-> 0]

\* timezone(timedelta(seconds=gmtoff, microseconds=gmtoff_fraction)) of
\* z = [+-]HHMM[SS[.ffffff]], the colons removed
ZoneFields(z) ==
    LET gmtoff == Int10(SubSeq(z, 2, 3)) * 3600 + Int10(SubSeq(z, 4, 5)) * 60
                  + (IF Len(z) >= 7 THEN Int10(SubSeq(z, 6, 7)) ELSE 0)
        frac == Int10(Drop(z, 8) \o [i \in 1..(6 - Len(Drop(z, 8))) |-> "0"])
    IN  [ok |-> TRUE, aware |-> TRUE,
         seconds |-> IF z[1] = "-" THEN 0 - gmtoff ELSE gmtoff,
         microseconds |-> IF z[1] = "-" THEN 0 - frac ELSE frac]

\* z = z[:3] + z[4:] done: the second ":" must be there if seconds follow
ZoneColon(z) ==
    IF Len(z) > 5
    THEN IF z[6] # ":" THEN [ok |-> FALSE, aware |-> FALSE, seconds |-> 0, microseconds |-> 0]
         ELSE ZoneFields(Take(z, 5) \o Drop(z, 6))
    ELSE ZoneFields(z)

\* The zone of a matched %z: None, or the offset in seconds and microseconds,
\* or the ValueError of an inconsistent use of ":".
ZoneOf(zfound) ==
    IF zfound = <<>> THEN [ok |-> TRUE, aware |-> FALSE, seconds |-> 0, microseconds |-> 0]
    ELSE IF zfound = <<"Z">> THEN [ok |-> TRUE, aware |-> TRUE, seconds |-> 0, microseconds |-> 0]
    ELSE IF zfound[4] = ":" THEN ZoneColon(Take(zfound, 3) \o Drop(zfound, 4))
    ELSE ZoneFields(zfound)

SecondsPerDay == 24 * 3600

\* The datetime of the fields found and their zone, or the ValueError of a
\* field out of range
StrptimeFields(g, zone) ==
    LET year == IF g.Y = <<>> THEN 1900 ELSE Int10(g.Y)
        month == IF g.m # <<>> THEN Int10(g.m)
                 ELSE IF g.b # <<>> THEN IndexOf(LowerAll(g.b), MonthNames)
                 ELSE 1
        day == IF g.d = <<>> THEN 1
               ELSE IF g.d[1] = " " THEN Int10(Tail(g.d)) ELSE Int10(g.d)
        second == IF g.S = <<>> THEN 0 ELSE Int10(g.S)
    IN  IF ~zone.ok THEN Raise("ValueError", <<"Inconsistent use of :">>)
        ELSE IF year < 1 THEN Raise("ValueError", <<"year is out of range">>)
        ELSE IF day > DaysInMonth(year, month)
        THEN Raise("ValueError", <<"day is out of range for month">>)
        ELSE IF second > 59 THEN Raise("ValueError", <<"second must be in 0..59">>)
        ELSE IF zone.aware
                /\ (zone.seconds >= SecondsPerDay \/ zone.seconds <= 0 - SecondsPerDay)
        THEN Raise("ValueError", <<"offset must be a timedelta strictly between">>)
        ELSE Return([type |-> "datetime", year |-> year, month |-> month, day |-> day,
                     hour |-> IF g.H = <<>> THEN 0 ELSE Int10(g.H),
                     minute |-> IF g.M = <<>> THEN 0 ELSE Int10(g.M),
                     second |-> second,
                     microsecond |-> IF g.f = <<>> THEN 0
                                     ELSE Int10(g.f \o [i \in 1..(6 - Len(g.f)) |-> "0"]),
                     tzinfo |-> [aware |-> zone.aware, seconds |-> zone.seconds,
                                 microseconds |-> zone.microseconds]])

StrptimeMatch(r) ==
    IF ~r.ok THEN Raise("ValueError", <<"time data does not match format">>)
    ELSE IF r.rest # <<>> THEN Raise("ValueError", <<"unconverted data remains">>)
    ELSE StrptimeFields(r.found, ZoneOf(r.found.z))

\* datetime.strptime(text, fmt): the datetime, or the ValueError it raises
strptime(text, fmt) == StrptimeMatch(RegexMatch(fmt, text, NothingFound))

\* datetime.date() and datetime.time()
DateOf(dt) == [type |-> "date", year |-> dt.year, month |-> dt.month, day |-> dt.day]

TimeOf(dt) == [type |-> "time", hour |-> dt.hour, minute |-> dt.minute, second |-> dt.second,
               microsecond |-> dt.microsecond, tzinfo |-> NoZone]

\* str(date): date.isoformat()
DateStr(obj) == Pad(obj.year, 4) \o <<"-">> \o Pad(obj.month, 2) \o <<"-">> \o Pad(obj.day, 2)

(***************************************************************************)
(* The session parameters.  pgconn.parameter_status(name) returns the       *)
(* value as bytes, or None when the parameter is not known.  An adapter has *)
(* a connection or none; adapters with a connection read the live values.   *)
(***************************************************************************)
Unset == [set |-> FALSE, val |-> <<>>]

Param(v) == [set |-> TRUE, val |-> v]

\* str.replace(".%f", "")
RECURSIVE RemoveMicro(_)
RemoveMicro(fmt) ==
    IF fmt = <<>> THEN <<>>
    ELSE IF StartsWith(fmt, <<".", "%", "f">>) THEN RemoveMicro(Drop(fmt, 3))
    ELSE <<fmt[1]>> \o RemoveMicro(Tail(fmt))

\* The attributes of an adapter instance.  load / dump name the method the
\* instance attribute is bound to.  read is not an attribute: it records the
\* parameter values the constructor read from the connection.
Instance(cls, connection, format, method, dsRead, isRead) ==
    [cls |-> cls, connection |-> connection, format |-> format,
     format_no_micro |-> RemoveMicro(format), method |-> method,
     read |-> [DateStyle |-> dsRead, IntervalStyle |-> isRead]]

NoAdapter == Instance("none", FALSE, <<>>, "none", Unset, Unset)

(***************************************************************************)
(* DateDumper                                                               *)
(***************************************************************************)
DateDumper_init(connection) == Return(Instance("DateDumper", connection, <<>>, "dump", Unset, Unset))

DateDumper_dump(self, obj) == Return([type |-> "bytes", bytes |-> DateStr(obj)])

(***************************************************************************)
(* DateLoader                                                               *)
(***************************************************************************)
DateLoader_get_datestyle(self, ds) ==
    IF self.connection /\ ds.set /\ ds.val # <<>> THEN ds.val ELSE <<"I", "S", "O", ",", " ", "D", "M", "Y">>

UnexpectedDateStyle(ds) ==
    IF IsAscii(ds) THEN Raise("InterfaceError", <<"unexpected DateStyle: ", ds>>)
    ELSE Raise("UnicodeDecodeError", <<"'ascii' codec can't decode byte">>)

\* Mutation of _format_from_context: the ordering DMY / MDY is not looked at
DateLoader_format_ignoring_order(self, dsLive) ==
    LET ds == DateLoader_get_datestyle(self, dsLive)
    IN  IF StartsWith(ds, <<"I">>) THEN Return(<<"%", "Y", "-", "%", "m", "-", "%", "d">>)
        ELSE IF StartsWith(ds, <<"G">>) THEN Return(<<"%", "d", ".", "%", "m", ".", "%", "Y">>)
        ELSE IF StartsWith(ds, <<"S">>) THEN Return(<<"%", "d", "/", "%", "m", "/", "%", "Y">>)
        ELSE IF StartsWith(ds, <<"P">>) THEN Return(<<"%", "d", "-", "%", "m", "-", "%", "Y">>)
        ELSE UnexpectedDateStyle(ds)

DateLoader_format_from_context(self, dsLive) ==
    LET ds == DateLoader_get_datestyle(self, dsLive)
    IN  IF StartsWith(ds, <<"I">>) THEN Return(<<"%", "Y", "-", "%", "m", "-", "%", "d">>)
        ELSE IF StartsWith(ds, <<"G">>) THEN Return(<<"%", "d", ".", "%", "m", ".", "%", "Y">>)
        ELSE IF StartsWith(ds, <<"S">>)
        THEN Return(IF EndsWith(ds, <<"D", "M", "Y">>) THEN <<"%", "d", "/", "%", "m", "/", "%", "Y">> ELSE <<"%", "m", "/", "%", "d", "/", "%", "Y">>)
        ELSE IF StartsWith(ds, <<"P">>)
        THEN Return(IF EndsWith(ds, <<"D", "M", "Y">>) THEN <<"%", "d", "-", "%", "m", "-", "%", "Y">> ELSE <<"%", "m", "-", "%", "d", "-", "%", "Y">>)
        ELSE UnexpectedDateStyle(ds)

\* What the constructor read from the connection, if it has one
ReadBy(connection, v) == IF connection THEN v ELSE Unset

DateLoader_init(connection, ds) ==
    LET f == DateLoader_format_from_context([connection |-> connection], ds)
    IN  IF f.kind # "ok" THEN f
        ELSE Return(Instance("DateLoader", connection, f.value, "load",
                             ReadBy(connection, ds), Unset))

DateLoader_get_year_digits(self, data) ==
    LET datesep == self.format[3]
        parts == Split(Split(data, " ")[1], datesep)
    IN  MaxLen(parts)

DateLoader_raise_error(self, data, exc, yearDigits) ==
    IF EndsWith(data, <<"B", "C">>)
    THEN Raise("DataError", <<"Python doesn't support BC date: got ", DecodeReplace(data)>>)
    ELSE IF yearDigits > 4
    THEN Raise("DataError", <<"Python date doesn't support years after 9999: got ",
                              DecodeReplace(data)>>)
    ELSE exc

\* _decode_ascii(data)[0] followed by datetime.strptime, inside the try block
DecodeAndParse(data, fmt) ==
    IF IsAscii(data) THEN strptime(data, fmt)
    ELSE Raise("UnicodeDecodeError", <<"'ascii' codec can't decode byte">>)

DateLoader_load(self, data) ==
    LET r == DecodeAndParse(data, self.format)
    IN  IF r.kind = "ok" THEN Return(DateOf(r.value))
        ELSE DateLoader_raise_error(self, data, r, DateLoader_get_year_digits(self, data))

(***************************************************************************)
(* TimeLoader and TimeTzLoader                                              *)
(***************************************************************************)
TimeLoader_init(connection) ==
    Return(Instance("TimeLoader", connection, <<"%", "H", ":", "%", "M", ":", "%", "S", ".", "%", "f">>, "load", Unset, Unset))

TimeLoader_raise_error(data, exc) ==
    IF StartsWith(data, <<"2", "4">>)
    THEN IF IsAscii(data)
         THEN Raise("DataError", <<"time not supported by Python: ", data>>)
         ELSE Raise("UnicodeDecodeError", <<"'ascii' codec can't decode byte">>)
    ELSE exc

TimeLoader_load(self, data) ==
    LET fmt == IF Contains(data, ".") THEN self.format ELSE self.format_no_micro
        r == DecodeAndParse(data, fmt)
    IN  IF r.kind = "ok" THEN Return(TimeOf(r.value))
        ELSE TimeLoader_raise_error(data, r)

TimeTzLoader_init(connection) ==
    Return(Instance("TimeTzLoader", connection, <<"%", "H", ":", "%", "M", ":", "%", "S", ".", "%", "f", "%", "z">>, "load", Unset, Unset))

\* Mutation of the test of the offset: data[-2] is looked at
HasShortOffset_at_2(data) == data[Len(data) - 1] \in {"+", "-"}

\* Hack to convert +HH in +HHMM: data[-3] in (43, 45)
HasShortOffset(data) == data[Len(data) - 2] \in {"+", "-"}

TimeTzLoader_load(self, data) ==
    IF Len(data) < 3 THEN Raise("IndexError", <<"index out of range">>)
    ELSE LET data2 == IF HasShortOffset(data) THEN data \o <<"0", "0">> ELSE data
             fmt == IF Contains(data2, ".") THEN self.format ELSE self.format_no_micro
             r == DecodeAndParse(data2, fmt)
         IN  IF r.kind = "ok"
             THEN Return([TimeOf(r.value) EXCEPT !.tzinfo = r.value.tzinfo])
             ELSE TimeLoader_raise_error(data2, r)

(***************************************************************************)
(* TimestampLoader                                                          *)
(***************************************************************************)
TimestampLoader_format_from_context(self, dsLive) ==
    LET ds == DateLoader_get_datestyle(self, dsLive)
    IN  IF StartsWith(ds, <<"I">>) THEN Return(<<"%", "Y", "-", "%", "m", "-", "%", "d", " ", "%", "H", ":", "%", "M", ":", "%", "S", ".", "%", "f">>)
        ELSE IF StartsWith(ds, <<"G">>) THEN Return(<<"%", "d", ".", "%", "m", ".", "%", "Y", " ", "%", "H", ":", "%", "M", ":", "%", "S", ".", "%", "f">>)
        ELSE IF StartsWith(ds, <<"S">>)
        THEN Return(IF EndsWith(ds, <<"D", "M", "Y">>) THEN <<"%", "d", "/", "%", "m", "/", "%", "Y", " ", "%", "H", ":", "%", "M", ":", "%", "S", ".", "%", "f">>
                    ELSE <<"%", "m", "/", "%", "d", "/", "%", "Y", " ", "%", "H", ":", "%", "M", ":", "%", "S", ".", "%", "f">>)
        ELSE IF StartsWith(ds, <<"P">>)
        THEN Return(IF EndsWith(ds, <<"D", "M", "Y">>) THEN <<"%", "a", " ", "%", "d", " ", "%", "b", " ", "%", "H", ":", "%", "M", ":", "%", "S", ".", "%", "f", " ", "%", "Y">>
                    ELSE <<"%", "a", " ", "%", "b", " ", "%", "d", " ", "%", "H", ":", "%", "M", ":", "%", "S", ".", "%", "f", " ", "%", "Y">>)
        ELSE UnexpectedDateStyle(ds)

TimestampLoader_init(connection, ds) ==
    LET f == TimestampLoader_format_from_context([connection |-> connection], ds)
    IN  IF f.kind # "ok" THEN f
        ELSE Return(Instance("TimestampLoader", connection, f.value, "load",
                             ReadBy(connection, ds), Unset))

\* Find the year from the date.  The DateStyle is read from the connection
\* again, at the time of the call.
TimestampLoader_get_year_digits(self, data, dsLive) ==
    IF ~StartsWith(DateLoader_get_datestyle(self, dsLive), <<"P">>)
    THEN DateLoader_get_year_digits(self, data)
    ELSE LET parts == SplitWhitespace(data)
         IN  IF Len(parts) > 4 THEN Len(parts[5]) ELSE 0

TimestampLoader_load(self, data, dsLive) ==
    LET fmt == IF FindFrom(data, ".", 19) THEN self.format ELSE self.format_no_micro
        r == DecodeAndParse(data, fmt)
    IN  IF r.kind = "ok" THEN r
        ELSE DateLoader_raise_error(self, data, r,
                                    TimestampLoader_get_year_digits(self, data, dsLive))

(***************************************************************************)
(* TimestamptzLoader                                                        *)
(***************************************************************************)
\* The format and the method bound to self.load
TimestamptzLoader_format_from_context(self, dsLive) ==
    LET ds == DateLoader_get_datestyle(self, dsLive)
    IN  IF StartsWith(ds, <<"I">>)
        THEN [format |-> <<"%", "Y", "-", "%", "m", "-", "%", "d", " ", "%", "H", ":", "%", "M", ":", "%", "S", ".", "%", "f", "%", "z">>, method |-> "load"]
        ELSE [format |-> <<>>, method |-> "_load_notimpl"]

TimestamptzLoader_init(connection, ds) ==
    LET f == TimestamptzLoader_format_from_context([connection |-> connection], ds)
    IN  Return(Instance("TimestamptzLoader", connection, f.format, f.method,
                        ReadBy(connection, ds), Unset))

TimestamptzLoader_load(self, data, dsLive) ==
    IF Len(data) < 3 THEN Raise("IndexError", <<"index out of range">>)
    ELSE TimestampLoader_load(self, IF HasShortOffset(data) THEN data \o <<"0", "0">> ELSE data, dsLive)

TimestamptzLoader_load_notimpl(self, data, dsLive) ==
    LET ds == DateLoader_get_datestyle(self, dsLive)
    IN  IF IsAscii(ds) /\ IsAscii(data)
        THEN Raise("NotImplementedError", <<"can't parse datetimetz with DateStyle ", ds, data>>)
        ELSE Raise("UnicodeDecodeError", <<"'ascii' codec can't decode byte">>)

(***************************************************************************)
(* timedelta.  A timedelta is normalized to days, 0 <= seconds < 86400 and  *)
(* 0 <= microseconds < 1000000, and its days are within +-999999999.  A     *)
(* number of seconds is carried as whole hours and the seconds left over,  *)
(* so that every intermediate value stays within 32 bits.                   *)
(***************************************************************************)
Million == 1000 * 1000

MaxDeltaDays == 1000 * 1000 * 1000 - 1

Timedelta(d, s, us) == [type |-> "timedelta", days |-> d, seconds |-> s, microseconds |-> us]

\* timedelta(days=days, seconds=sign * (3600 * hours + secs + us / 10^6)),
\* with 0 <= secs < 3600 and 0 <= us <= 10^6; OverflowError out of range
NewTimedelta(days, negative, hours, secs, us) ==
    LET carry == IF us = Million THEN 1 ELSE 0
        um == IF us = Million THEN 0 ELSE us
        sAll == (hours % 24) * 3600 + secs + carry
        dm == hours \div 24 + sAll \div 86400
        sm == sAll % 86400
        borrow == IF um > 0 THEN 1 ELSE 0
        s0 == 0 - sm - borrow
        d == IF negative THEN days - dm + (s0 \div 86400) ELSE days + dm
        s == IF negative THEN s0 % 86400 ELSE sm
        u == IF negative THEN (Million - um) % Million ELSE um
    IN  IF d > MaxDeltaDays \/ d < 0 - MaxDeltaDays
        THEN Raise("OverflowError", <<"days; must have magnitude <= 999999999">>)
        ELSE Return(Timedelta(d, s, u))

\* timedelta(days=d, seconds=s, microseconds=us) on integers
TimedeltaOf(d, s, us) ==
    LET sec == s + us \div Million
    IN  Timedelta(d + sec \div 86400, sec % 86400, us % Million)

\* str(timedelta)
TimedeltaStr(obj) ==
    LET hh == obj.seconds \div 3600
        mm == (obj.seconds \div 60) % 60
        ss == obj.seconds % 60
        plural == IF obj.days \in {1, 0 - 1} THEN <<>> ELSE <<"s">>
    IN  (IF obj.days # 0 THEN IntStr(obj.days) \o <<" ", "d", "a", "y">> \o plural \o <<",", " ">> ELSE <<>>)
        \o NatStr(hh) \o <<":">> \o Pad(mm, 2) \o <<":">> \o Pad(ss, 2)
        \o (IF obj.microseconds # 0 THEN <<".">> \o Pad(obj.microseconds, 6) ELSE <<>>)

(***************************************************************************)
(* float.  seconds = 3600 * int(hours) + 60 * int(minutes) + float(seconds) *)
(* is a binary64 sum, and timedelta rounds the fraction of a float number   *)
(* of seconds to the nearest microsecond, ties to even.  A sum s with       *)
(* 2^e <= s < 2^(e+1) is rounded to a multiple of 2^(e-52).  Below 2^33     *)
(* seconds the spacing is under a microsecond and a fraction of at most six *)
(* decimal digits is recovered exactly.                                     *)
(***************************************************************************)
Pow2(n) == 2 ^ n

\* a / b rounded to the nearest integer, ties to even (a >= 0, b > 0)
RoundHalfEven(a, b) ==
    LET q == a \div b
        r == a % b
    IN  IF 2 * r > b \/ (2 * r = b /\ q % 2 = 1) THEN q + 1 ELSE q

\* 2^e seconds as <<whole hours, seconds left over>>, for e >= 33:
\* 2^33 = 16 * 2^29 and 3600 = 16 * 225
RECURSIVE HoursOfPow2(_)
HoursOfPow2(e) ==
    IF e = 33 THEN <<Pow2(29) \div 225, 16 * (Pow2(29) % 225)>>
    ELSE LET p == HoursOfPow2(e - 1)
         IN  <<2 * p[1] + (2 * p[2]) \div 3600, (2 * p[2]) % 3600>>

AtLeastPow2(hours, secs, e) ==
    LET p == HoursOfPow2(e)
    IN  hours > p[1] \/ (hours = p[1] /\ secs >= p[2])

\* The binary exponent of 3600 * hours + secs seconds, from 33 up
FloatExponent(hours, secs) ==
    CHOOSE e \in 33..42 : AtLeastPow2(hours, secs, e)
                          /\ (e = 42 \/ ~AtLeastPow2(hours, secs, e + 1))

\* The microseconds timedelta gets from the float 3600 * hours + secs + us / 10^6:
\* the fraction is rounded to k / 2^j by the sum, then k * 10^6 / 2^j to an integer.
FloatMicroseconds(hours, secs, us) ==
    IF ~AtLeastPow2(hours, secs, 33) THEN us
    ELSE LET m == Pow2(46 - FloatExponent(hours, secs))  \* 2^j / 64, j = 52 - e
             k == (us \div 15625) * m + RoundHalfEven((us % 15625) * m, 15625)
         IN  (k \div m) * 15625 + RoundHalfEven((k % m) * 15625, m)

(***************************************************************************)
(* TimeDeltaDumper                                                          *)
(***************************************************************************)
TimeDeltaDumper_init(connection, intervalStyle) ==
    Return(Instance("TimeDeltaDumper", connection, <<>>,
                    IF connection /\ intervalStyle = Param(<<"s", "q", "l", "_", "s", "t", "a", "n", "d", "a", "r", "d">>)
                    THEN "_dump_sql" ELSE "dump",
                    Unset, ReadBy(connection, intervalStyle)))

TimeDeltaDumper_dump(self, obj) == Return([type |-> "bytes", bytes |-> TimedeltaStr(obj)])

\* Mutation of _dump_sql: %d in the place of %+d
TimeDeltaDumper_dump_sql_unsigned(self, obj) ==
    Return([type |-> "bytes",
            bytes |-> IntStr(obj.days) \o <<" ", "d", "a", "y", " ">> \o IntStr(obj.seconds) \o <<" ", "s", "e", "c", "o", "n", "d", " ">>
                      \o IntStr(obj.microseconds) \o <<" ", "m", "i", "c", "r", "o", "s", "e", "c", "o", "n", "d">>])

\* sql_standard format needs explicit signs
TimeDeltaDumper_dump_sql(self, obj) ==
    Return([type |-> "bytes",
            bytes |-> SignedStr(obj.days) \o <<" ", "d", "a", "y", " ">> \o SignedStr(obj.seconds) \o <<" ", "s", "e", "c", "o", "n", "d", " ">>
                      \o SignedStr(obj.microseconds) \o <<" ", "m", "i", "c", "r", "o", "s", "e", "c", "o", "n", "d">>])

(***************************************************************************)
(* IntervalLoader                                                           *)
(***************************************************************************)
\* The length of the match of  [-+]?\d+  at the start of s, 0 when there is none
SignedLen(s) ==
    LET sign == IF s # <<>> /\ s[1] \in {"-", "+"} THEN 1 ELSE 0
        nd == DigitRun(Drop(s, sign))
    IN  IF nd >= 1 THEN sign + nd ELSE 0

\* The length of the match of  s? \s*  at the start of s, added to n
UnitTailLen(s, n) ==
    LET plural == IF s # <<>> /\ s[1] = "s" THEN 1 ELSE 0
    IN  n + plural + SpaceRun(Drop(s, plural))

\* The length of the match of  \s+ unit s? \s*  at the start of s, 0 when there is none
UnitLen(s, unit, ns) ==
    IF ns >= 1 /\ StartsWith(Drop(s, ns), unit)
    THEN UnitTailLen(Drop(s, ns + Len(unit)), ns + Len(unit))
    ELSE 0

UnitGroup(s, n, u) ==
    IF n >= 1 /\ u >= 1 THEN [group |-> Take(s, n), rest |-> Drop(s, n + u)]
    ELSE [group |-> <<>>, rest |-> s]

\* (?: (?P<name> [-+]?\d+) \s+ unit s? \s* )?   One optional group of
\* _re_interval matched at the start of s: the group's text, <<>> when the
\* group does not take part in the match, and what follows the group.
IntervalUnit(s, unit) ==
    UnitGroup(s, SignedLen(s), UnitLen(Drop(s, SignedLen(s)), unit, SpaceRun(Drop(s, SignedLen(s)))))

\* The length of the match of  : \d+  at the start of s, 0 when there is none
ColonDigitsLen(s) ==
    IF s # <<>> /\ s[1] = ":" /\ DigitRun(Tail(s)) >= 1 THEN 1 + DigitRun(Tail(s)) ELSE 0

\* The length of the match of  (?:\.\d+)?  at the start of s
FractionLen(s) ==
    IF s # <<>> /\ s[1] = "." /\ DigitRun(Tail(s)) >= 1 THEN 1 + DigitRun(Tail(s)) ELSE 0

NoTime(s) ==
    [hsign |-> <<>>, hours |-> <<>>, minutes |-> <<>>, seconds |-> <<>>, fraction |-> <<>>,
     rest |-> s]

\* The groups of a time of day, from the lengths of its parts
TimeGroups(s, sign, nh, nm, nsec, nf) ==
    IF nh >= 1 /\ nm >= 1 /\ nsec >= 1
    THEN [hsign |-> Take(s, sign), hours |-> SubSeq(s, sign + 1, sign + nh),
          minutes |-> SubSeq(s, sign + nh + 2, sign + nh + nm),
          seconds |-> SubSeq(s, sign + nh + nm + 2, sign + nh + nm + nsec),
          fraction |-> SubSeq(s, sign + nh + nm + nsec + 2, sign + nh + nm + nsec + nf),
          rest |-> Drop(s, sign + nh + nm + nsec + nf)]
    ELSE NoTime(s)

TimeSeconds(s, sign, nh, nm, nsec) ==
    TimeGroups(s, sign, nh, nm, nsec, FractionLen(Drop(s, sign + nh + nm + nsec)))

TimeMinutes(s, sign, nh, nm) ==
    TimeSeconds(s, sign, nh, nm, ColonDigitsLen(Drop(s, sign + nh + nm)))

TimeHours(s, sign, nh) == TimeMinutes(s, sign, nh, ColonDigitsLen(Drop(s, sign + nh)))

\* (?: (?P<hsign> [-+])? (?P<hours> \d+ ) : (?P<minutes> \d+ )
\*     : (?P<seconds> \d+ (?:\.\d+)? ) )?
IntervalTime(s) ==
    LET sign == IF s # <<>> /\ s[1] \in {"-", "+"} THEN 1 ELSE 0
    IN  TimeHours(s, sign, DigitRun(Drop(s, sign)))

MatchGroups(y, m, d, t) ==
    [matched |-> TRUE, years |-> y, months |-> m, days |-> d,
     hsign |-> t.hsign, hours |-> t.hours, minutes |-> t.minutes,
     seconds |-> t.seconds, fraction |-> t.fraction, rest |-> t.rest]

MatchDays(y, m, d) == MatchGroups(y, m, d.group, IntervalTime(d.rest))

MatchMonths(y, m) == MatchDays(y, m.group, IntervalUnit(m.rest, <<"d", "a", "y">>))

MatchYears(y) == MatchMonths(y.group, IntervalUnit(y.rest, <<"m", "o", "n">>))

\* self._re_interval.match(data): always a match, of the empty string at worst,
\* since every group of the pattern is optional.  rest is data[m.end():].
re_interval_match(data) == MatchYears(IntervalUnit(data, <<"y", "e", "a", "r">>))

IntervalLoader_init(connection, intervalStyle) ==
    Return(Instance("IntervalLoader", connection, <<>>,
                    IF connection /\ intervalStyle # Param(<<"p", "o", "s", "t", "g", "r", "e", "s">>)
                    THEN "_load_notimpl" ELSE "load",
                    Unset, ReadBy(connection, intervalStyle)))

\* The digits of a fraction of a second, as microseconds (at most six digits)
FractionMicros(f) == Int10(f \o [i \in 1..(6 - Len(f)) |-> "0"])

\* timedelta(days=days, seconds=seconds), the OverflowError turned into a DataError
LoadTimedelta(td) == IF td.kind = "OverflowError" THEN Raise("DataError", td.msg) ELSE td

\* seconds = 3600 * int(hours) + 60 * int(minutes) + float(seconds), negated
\* under a "-" sign; minsec is 60 * minutes + seconds without the fraction
LoadSeconds(m, days, hours, minsec) ==
    LoadTimedelta(NewTimedelta(days, m.hsign = <<"-">>, hours + minsec \div 3600, minsec % 3600,
                               FloatMicroseconds(hours + minsec \div 3600, minsec % 3600,
                                                 FractionMicros(m.fraction))))

LoadDays(m, days) ==
    IF m.hours # <<>>
    THEN LoadSeconds(m, days, Int10(m.hours), 60 * Int10(m.minutes) + Int10(m.seconds))
    ELSE LoadTimedelta(NewTimedelta(days, FALSE, 0, 0, 0))

LoadMatch(m) ==
    IF ~m.matched THEN Raise("ValueError", <<"can't parse interval: {data.decode('ascii')}">>)
    ELSE LoadDays(m, (IF m.years # <<>> THEN 365 * SignedInt(m.years) ELSE 0)
                     + (IF m.months # <<>> THEN 30 * SignedInt(m.months) ELSE 0)
                     + (IF m.days # <<>> THEN SignedInt(m.days) ELSE 0))

IntervalLoader_load(self, data) == LoadMatch(re_interval_match(data))

IntervalLoader_load_notimpl(self, data, isLive) ==
    LET ints == IF self.connection /\ isLive.set /\ isLive.val # <<>>
                THEN isLive.val ELSE <<"u", "n", "k", "n", "o", "w", "n">>
    IN  IF IsAscii(ints) /\ IsAscii(data)
        THEN Raise("NotImplementedError", <<"can't parse interval with IntervalStyle ", ints, data>>)
        ELSE Raise("UnicodeDecodeError", <<"'ascii' codec can't decode byte">>)

(***************************************************************************)
(* The environment: the values the session parameters take, the values      *)
(* handed to the dumpers and the texts handed to the loaders.  The texts    *)
(* are those PostgreSQL prints for a value under the session's current      *)
(* DateStyle, and texts no decoder can take.                                *)
(***************************************************************************)
\* Bounds of the environment
MaxUnit == 1

MaxOffsetHours == 2

DateStyleValues ==
    {Unset, Param(<<"I", "S", "O", ",", " ", "D", "M", "Y">>), Param(<<"I", "S", "O", ",", " ", "M", "D", "Y">>), Param(<<"G", "e", "r", "m", "a", "n", ",", " ", "D", "M", "Y">>), Param(<<"G", "e", "r", "m", "a", "n", ",", " ", "M", "D", "Y">>),
     Param(<<"S", "Q", "L", ",", " ", "D", "M", "Y">>), Param(<<"S", "Q", "L", ",", " ", "M", "D", "Y">>), Param(<<"P", "o", "s", "t", "g", "r", "e", "s", ",", " ", "D", "M", "Y">>), Param(<<"P", "o", "s", "t", "g", "r", "e", "s", ",", " ", "M", "D", "Y">>),
     Param(<<"X", "Y", "Z">>)}

IntervalStyleValues ==
    {Unset, Param(<<"p", "o", "s", "t", "g", "r", "e", "s">>), Param(<<"s", "q", "l", "_", "s", "t", "a", "n", "d", "a", "r", "d">>), Param(<<"i", "s", "o", "_", "8", "6", "0", "1">>)}

Date(y, m, d) == [type |-> "date", year |-> y, month |-> m, day |-> d]

DateValues ==
    {obj \in {Date(y, m, d) : y \in {1, 2024, 9999}, m \in {1, 2, 12}, d \in {1, 12, 13, 29, 31}} :
        obj.day <= DaysInMonth(obj.year, obj.month)}

\* The text of a date under a DateStyle
PgDate(obj, ds) ==
    LET y == Pad(obj.year, 4)
        m == Pad(obj.month, 2)
        d == Pad(obj.day, 2)
        dmy == EndsWith(ds, <<"D", "M", "Y">>)
    IN  IF StartsWith(ds, <<"G">>) THEN d \o <<".">> \o m \o <<".">> \o y
        ELSE IF StartsWith(ds, <<"S">>)
        THEN (IF dmy THEN d \o <<"/">> \o m ELSE m \o <<"/">> \o d) \o <<"/">> \o y
        ELSE IF StartsWith(ds, <<"P">>)
        THEN (IF dmy THEN d \o <<"-">> \o m ELSE m \o <<"-">> \o d) \o <<"-">> \o y
        ELSE y \o <<"-">> \o m \o <<"-">> \o d

\* The style the server prints in: the session's, ISO when it is not known
ServerStyle(ds) == IF ds.set THEN ds.val ELSE <<"I", "S", "O", ",", " ", "M", "D", "Y">>

\* Texts a date decoder cannot turn into a date
OddDateTexts ==
    {<<>>, <<"g", "a", "r", "b", "a", "g", "e">>, <<"xFF">>, <<"0", "0", "4", "4", "-", "0", "3", "-", "1", "5", " ", "B", "C">>, <<"1", "5", ".", "0", "3", ".", "0", "0", "4", "4", " ", "B", "C">>, <<"1", "0", "0", "0", "0", "-", "0", "1", "-", "0", "1">>,
     <<"0", "1", "/", "0", "1", "/", "1", "0", "0", "0", "0">>, <<"2", "0", "2", "3", "-", "0", "2", "-", "2", "9">>, <<"2", "0", "2", "4", "-", "1", "3", "-", "0", "1">>, <<"2", "0", "2", "4", "-", "1", "2", "-", "0", "0", "0", "3", "1">>, <<"0", "0", "0", "0", "-", "0", "1", "-", "0", "1">>,
     <<"2", "0", "2", "4", "-", "1", "-", "5">>, <<"0", "1", "/", "0", "2", "/", "2", "0", "2", "4", "B", "C">>}

DateTexts(ds) == {PgDate(obj, ServerStyle(ds)) : obj \in DateValues} \cup OddDateTexts

\* Times of day, as <<hour, minute, second, microsecond>>
TimeValues == {<<0, 0, 0, 0>>, <<10, 20, 30, 0>>, <<23, 59, 59, 500000>>, <<12, 0, 0, 1>>}

\* The fraction of a second as PostgreSQL prints it: no trailing zeros
RECURSIVE StripZeros(_)
StripZeros(s) == IF s # <<>> /\ s[Len(s)] = "0" THEN StripZeros(Take(s, Len(s) - 1)) ELSE s

PgFraction(us) == IF us = 0 THEN <<>> ELSE <<".">> \o StripZeros(Pad(us, 6))

PgTime(t) == Pad(t[1], 2) \o <<":">> \o Pad(t[2], 2) \o <<":">> \o Pad(t[3], 2) \o PgFraction(t[4])

\* Offsets from UTC, as <<sign, hours, minutes>>
Offsets ==
    {<<sg, h, 0>> : sg \in {"+", "-"}, h \in 0..MaxOffsetHours} \cup {<<"+", 5, 30>>, <<"-", 3, 30>>}

\* The offset as PostgreSQL prints it, and with the minutes always written
PgOffset(o) == <<o[1]>> \o Pad(o[2], 2) \o (IF o[3] = 0 THEN <<>> ELSE <<":">> \o Pad(o[3], 2))

OffsetSeconds(o) == (IF o[1] = "-" THEN 0 - 1 ELSE 1) * (o[2] * 3600 + o[3] * 60)

OddTimeTexts == {<<>>, <<"1", "+">>, <<"g", "a", "r", "b", "a", "g", "e">>, <<"xFF", "xFF", "xFF">>, <<"2", "4", ":", "0", "0", ":", "0", "0">>, <<"1", "0", ":", "2", "0">>, <<"1", "0", ":", "6", "1", ":", "0", "0">>}

OddTimeTzTexts ==
    {<<"2", "4", ":", "0", "0", ":", "0", "0", "+", "0", "2">>, <<"2", "4", ":", "0", "0", ":", "0", "0", "-", "0", "2", "0", "0">>, <<"1", "0", ":", "2", "0", ":", "3", "0", "+", "0", "2", "0", "0">>, <<"1", "0", ":", "2", "0", ":", "3", "0", ".", "5", "-", "0", "1", "0", "0">>, <<"1", "0", ":", "2", "0", ":", "3", "0", "+", "0", "2", ":", "3", "0", ":", "1", "5">>,
     <<"1", "0", ":", "2", "0", ":", "3", "0", "+", "2", "5">>, <<"1", "0", ":", "2", "0", ":", "3", "0", "+", "0", "2", ":", "3", "0", "1", "5">>, <<"1", "0", ":", "2", "0", ":", "3", "0", "Z">>, <<"2", "4", "xFF", "+", "0", "2">>, <<"1", "0", ":", "2", "0", ":", "3", "0", " ", "0", "2">>}

TimeTexts == {PgTime(t) : t \in TimeValues} \cup OddTimeTexts

TimeTzTexts ==
    {PgTime(t) \o PgOffset(o) : t \in TimeValues, o \in Offsets} \cup OddTimeTexts
    \cup OddTimeTzTexts

WeekdayAbbr == <<<<"M", "o", "n">>, <<"T", "u", "e">>, <<"W", "e", "d">>, <<"T", "h", "u">>, <<"F", "r", "i">>, <<"S", "a", "t">>, <<"S", "u", "n">>>>

MonthAbbr == <<<<"J", "a", "n">>, <<"F", "e", "b">>, <<"M", "a", "r">>, <<"A", "p", "r">>, <<"M", "a", "y">>, <<"J", "u", "n">>,
               <<"J", "u", "l">>, <<"A", "u", "g">>, <<"S", "e", "p">>, <<"O", "c", "t">>, <<"N", "o", "v">>, <<"D", "e", "c">>>>

RECURSIVE DaysBeforeMonth(_, _)
DaysBeforeMonth(y, m) == IF m = 1 THEN 0 ELSE DaysBeforeMonth(y, m - 1) + DaysInMonth(y, m - 1)

\* date.weekday(): Monday is 0
Weekday(obj) ==
    LET y == obj.year - 1
        ordinal == y * 365 + y \div 4 - y \div 100 + y \div 400
                   + DaysBeforeMonth(obj.year, obj.month) + obj.day
    IN  (ordinal + 6) % 7

TimestampDates == {Date(1, 1, 1), Date(2024, 2, 29), Date(2024, 12, 13), Date(9999, 12, 31)}

\* The text of a timestamp under a DateStyle
PgTimestamp(obj, t, ds) ==
    IF StartsWith(ds, <<"P">>)
    THEN WeekdayAbbr[Weekday(obj) + 1] \o <<" ">>
         \o (IF EndsWith(ds, <<"D", "M", "Y">>)
             THEN Pad(obj.day, 2) \o <<" ">> \o MonthAbbr[obj.month]
             ELSE MonthAbbr[obj.month] \o <<" ">> \o Pad(obj.day, 2))
         \o <<" ">> \o PgTime(t) \o <<" ">> \o Pad(obj.year, 4)
    ELSE PgDate(obj, ds) \o <<" ">> \o PgTime(t)

OddTimestampTexts ==
    {<<>>, <<"g", "a", "r", "b", "a", "g", "e">>, <<"xFF">>, <<"0", "0", "4", "4", "-", "0", "3", "-", "1", "5", " ", "1", "2", ":", "0", "0", ":", "0", "0", " ", "B", "C">>, <<"F", "r", "i", " ", "M", "a", "r", " ", "1", "5", " ", "1", "2", ":", "0", "0", ":", "0", "0", " ", "0", "0", "4", "4", " ", "B", "C">>,
     <<"1", "0", "0", "0", "0", "-", "0", "1", "-", "0", "1", " ", "0", "0", ":", "0", "0", ":", "0", "0">>, <<"1", "0", "0", "0", "0", "-", "0", "1", "-", "0", "1", " ", "0", "0", ":", "0", "0", ":", "0", "0", ".", "5">>, <<"0", "1", ".", "0", "1", ".", "1", "0", "0", "0", "0", " ", "0", "0", ":", "0", "0", ":", "0", "0">>,
     <<"S", "a", "t", " ", "J", "a", "n", " ", "0", "1", " ", "0", "0", ":", "0", "0", ":", "0", "0", " ", "1", "0", "0", "0", "0">>, <<"S", "a", "t", " ", "0", "1", " ", "J", "a", "n", " ", "0", "0", ":", "0", "0", ":", "0", "0", ".", "2", "5", " ", "1", "0", "0", "0", "0">>, <<"2", "0", "2", "4", "-", "1", "2", "-", "1", "3", " ", "1", "0", ":", "2", "0", ":", "6", "1">>,
     <<"2", "0", "2", "4", "-", "1", "2", "-", "1", "3", " ", "2", "4", ":", "0", "0", ":", "0", "0">>, <<"2", "0", "2", "4", "-", "1", "2", "-", "1", "3">>, <<"F", "r", "i", " ", "D", "e", "c", " ", "1", "3", " ", "1", "0", ":", "2", "0", ":", "3", "0", " ", "2", "0", "2", "4", " ", "e", "x", "t", "r", "a">>,
     <<"X", "y", "z", " ", "D", "e", "c", " ", "1", "3", " ", "1", "0", ":", "2", "0", ":", "3", "0", " ", "2", "0", "2", "4">>, <<"2", "0", "2", "4", "-", "1", "2", "-", "1", "3", " ", "1", "0", ":", "2", "0", ":", "3", "0", " ", "0", "0", "0", "0", "1">>}

TimestampTexts(ds) ==
    {PgTimestamp(obj, t, ServerStyle(ds)) : obj \in TimestampDates, t \in TimeValues}
    \cup OddTimestampTexts

OddTimestamptzTexts ==
    {<<>>, <<"a", "b">>, <<"g", "a", "r", "b", "a", "g", "e">>, <<"xFF", "xFF", "xFF">>, <<"0", "0", "4", "4", "-", "0", "3", "-", "1", "5", " ", "1", "2", ":", "0", "0", ":", "0", "0", "+", "0", "2", " ", "B", "C">>,
     <<"1", "0", "0", "0", "0", "-", "0", "1", "-", "0", "1", " ", "0", "0", ":", "0", "0", ":", "0", "0", "+", "0", "2">>, <<"1", "0", "0", "0", "0", "-", "0", "1", "-", "0", "1", " ", "0", "0", ":", "0", "0", ":", "0", "0", "-", "0", "2", "0", "0">>, <<"2", "0", "2", "4", "-", "1", "2", "-", "1", "3", " ", "2", "4", ":", "0", "0", ":", "0", "0", "+", "0", "2">>,
     <<"2", "0", "2", "4", "-", "1", "2", "-", "1", "3", " ", "1", "0", ":", "2", "0", ":", "3", "0", "+", "0", "2", "0", "0">>, <<"2", "0", "2", "4", "-", "1", "2", "-", "1", "3", " ", "1", "0", ":", "2", "0", ":", "3", "0", ".", "5", "+", "0", "2", "0", "0">>, <<"2", "0", "2", "4", "-", "1", "2", "-", "1", "3", " ", "1", "0", ":", "2", "0", ":", "3", "0">>,
     <<"1", "3", ".", "1", "2", ".", "2", "0", "2", "4", " ", "1", "0", ":", "2", "0", ":", "3", "0", " ", "C", "E", "T">>, <<"F", "r", "i", " ", "D", "e", "c", " ", "1", "3", " ", "1", "0", ":", "2", "0", ":", "3", "0", " ", "2", "0", "2", "4", " ", "C", "E", "T">>}

TimestamptzDates == {Date(2024, 2, 29), Date(9999, 12, 31)}

\* The text of a timestamp with time zone under ISO
PgTimestamptz(obj, t, o) == PgDate(obj, <<"I", "S", "O">>) \o <<" ">> \o PgTime(t) \o PgOffset(o)

\* Timestamps with time zone are printed with the offset only under ISO
TimestamptzTexts(ds) ==
    {PgTimestamptz(obj, t, o) : obj \in TimestamptzDates, t \in TimeValues, o \in Offsets}
    \cup OddTimestamptzTexts

\* The text of one unit of an interval: "1 year", "-2 mons", "0 days"
PgUnit(n, unit) == IntStr(n) \o <<" ">> \o unit \o (IF n = 1 THEN <<>> ELSE <<"s">>)

Units == (0 - MaxUnit)..MaxUnit

\* none, or the number of the unit
MaybeUnits == {<<>>} \cup {<<n>> : n \in Units}

\* The time-of-day group of an interval: <<sign, hours, minutes, seconds, fraction digits>>
IntervalTimes ==
    {<<<<>>, 0, 0, 0, <<>>>>, <<<<>>, 1, 2, 3, <<"5">>>>, <<<<"-">>, 1, 2, 3, <<>>>>,
     <<<<"+">>, 12, 0, 0, <<"0", "0", "0", "0", "0", "1">>>>, <<<<"-">>, 0, 0, 0, <<"0", "0", "0", "0", "0", "1">>>>, <<<<>>, 48, 59, 59, <<"9", "9", "9", "9", "9", "9">>>>}

MaybeTimes == {<<>>} \cup {<<t>> : t \in IntervalTimes}

PgIntervalTime(t) ==
    t[1] \o Pad(t[2], 2) \o <<":">> \o Pad(t[3], 2) \o <<":">> \o Pad(t[4], 2)
    \o (IF t[5] = <<>> THEN <<>> ELSE <<".">> \o t[5])

\* The groups that are present, joined by one space
RECURSIVE Join(_)
Join(parts) ==
    IF parts = <<>> THEN <<>>
    ELSE IF Len(parts) = 1 THEN parts[1]
    ELSE parts[1] \o <<" ">> \o Join(Tail(parts))

PgInterval(y, m, d, t) ==
    Join((IF y = <<>> THEN <<>> ELSE <<PgUnit(y[1], <<"y", "e", "a", "r">>)>>)
         \o (IF m = <<>> THEN <<>> ELSE <<PgUnit(m[1], <<"m", "o", "n">>)>>)
         \o (IF d = <<>> THEN <<>> ELSE <<PgUnit(d[1], <<"d", "a", "y">>)>>)
         \o (IF t = <<>> THEN <<>> ELSE <<PgIntervalTime(t[1])>>))

\* Well-formed interval texts with large fields: 2 years 3 mons 4 days 01:02:03.5;
\* the last day in range and the first beyond it; hours at and above 2^33 seconds
LargeIntervalTexts ==
    {<<"2", " ", "y", "e", "a", "r", "s", " ", "3", " ", "m", "o", "n", "s", " ", "4", " ", "d", "a", "y", "s", " ", "0", "1", ":", "0", "2", ":", "0", "3", ".", "5">>, <<"2", "7", "3", "9", "7", "2", "6", " ", "y", "e", "a", "r", "s", " ", "9", " ", "d", "a", "y", "s">>, <<"2", "7", "3", "9", "7", "2", "6", " ", "y", "e", "a", "r", "s", " ", "1", "0", " ", "d", "a", "y", "s">>,
     <<"-", "2", "7", "3", "9", "7", "2", "6", " ", "y", "e", "a", "r", "s", " ", "-", "1", "0", " ", "d", "a", "y", "s">>, <<"2", "3", "8", "6", "0", "9", "2", ":", "5", "6", ":", "3", "1", ".", "0", "0", "0", "0", "0", "1">>, <<"2", "3", "8", "6", "0", "9", "2", ":", "5", "6", ":", "3", "2", ".", "0", "0", "0", "0", "0", "1">>,
     <<"-", "2", "3", "8", "6", "0", "9", "3", ":", "0", "0", ":", "0", "0", ".", "0", "0", "0", "0", "0", "1">>, <<"2", "0", "0", "0", "0", "0", "0", "0", "0", "0", ":", "0", "0", ":", "0", "0", ".", "9", "9", "9", "9", "9", "9">>, <<"9", "9", "9", "9", "9", "9", "9", "9", "9", " ", "d", "a", "y", "s", " ", "2", "3", ":", "5", "9", ":", "5", "9", ".", "9", "9", "9", "9", "9", "9">>,
     <<"9", "9", "9", "9", "9", "9", "9", "9", "9", " ", "d", "a", "y", "s", " ", "2", "4", ":", "0", "0", ":", "0", "0">>}

\* Texts in which no group of the interval grammar matches, and texts in which
\* a group is followed by something else
OddIntervalTexts ==
    {<<"g", "a", "r", "b", "a", "g", "e">>, <<"xFF">>, <<"1", " ", "w", "e", "e", "k">>, <<" ", "1", " ", "d", "a", "y">>, <<"0", "1", ":", "0", "2">>, <<"1", " ", "D", "A", "Y">>, <<"P", "1", "Y", "2", "M", "3", "D", "T", "4", "H", "5", "M", "6", "S">>,
     <<"1", "-", "2">>, <<"1", " ", "d", "a", "y", " ", "g", "a", "r", "b", "a", "g", "e">>, <<"1", " ", "d", "a", "y", " ", "1", " ", "y", "e", "a", "r">>, <<"+", "1", " ", "y", "e", "a", "r">>, <<"1", " ", " ", "y", "e", "a", "r", " ", " ", "2", " ", "m", "o", "n", "s">>}

IntervalTexts ==
    {PgInterval(y, m, d, t) : y \in MaybeUnits, m \in MaybeUnits, d \in MaybeUnits, t \in MaybeTimes}
    \cup LargeIntervalTexts \cup OddIntervalTexts

\* Arguments of timedelta(days, seconds, microseconds), not normalized
TimedeltaArgs ==
    {<<d, s, us>> : d \in (0 - MaxUnit)..MaxUnit, s \in {0 - 86399, 0 - 1, 0, 1, 3723, 86400},
                    us \in {0 - 1, 0, 1, 500000}}

(***************************************************************************)
(* The state machine.  One adapter is constructed at a time, by the adapter *)
(* registry; the session parameters change at any time between two calls;   *)
(* a call leaves its outcome in result until the caller has taken it.       *)
(***************************************************************************)
NoCall == [op |-> "none", arg |-> <<>>, kind |-> "none", value |-> None, msg |-> <<>>]

Outcome(op, arg, out) ==
    [op |-> op, arg |-> arg, kind |-> out.kind, value |-> out.value, msg |-> out.msg]

Idle == result = NoCall

Init ==
    /\ DateStyle \in DateStyleValues
    /\ IntervalStyle \in IntervalStyleValues
    /\ adapter = NoAdapter
    /\ result = NoCall

\* The server reports a new value of DateStyle (SET datestyle, RESET, ...)
SetDateStyle(v) ==
    /\ Idle
    /\ v # DateStyle
    /\ DateStyle' = v
    /\ UNCHANGED <<IntervalStyle, adapter, result>>

SetIntervalStyle(v) ==
    /\ Idle
    /\ v # IntervalStyle
    /\ IntervalStyle' = v
    /\ UNCHANGED <<DateStyle, adapter, result>>

\* cls(oid, context): the new instance replaces the adapter under study, unless
\* the constructor raises
Construct(cls, connection, out) ==
    /\ Idle
    /\ adapter' = IF out.kind = "ok" THEN out.value ELSE adapter
    /\ result' = [op |-> "init", arg |-> <<cls, connection>>, kind |-> out.kind,
                  value |-> None, msg |-> out.msg]
    /\ UNCHANGED <<DateStyle, IntervalStyle>>

NewDateDumper(connection) == Construct("DateDumper", connection, DateDumper_init(connection))

NewTimeDeltaDumper(connection) ==
    Construct("TimeDeltaDumper", connection, TimeDeltaDumper_init(connection, IntervalStyle))

NewDateLoader(connection) ==
    Construct("DateLoader", connection, DateLoader_init(connection, DateStyle))

NewTimeLoader(connection) == Construct("TimeLoader", connection, TimeLoader_init(connection))

NewTimeTzLoader(connection) == Construct("TimeTzLoader", connection, TimeTzLoader_init(connection))

NewTimestampLoader(connection) ==
    Construct("TimestampLoader", connection, TimestampLoader_init(connection, DateStyle))

NewTimestamptzLoader(connection) ==
    Construct("TimestamptzLoader", connection, TimestamptzLoader_init(connection, DateStyle))

NewIntervalLoader(connection) ==
    Construct("IntervalLoader", connection, IntervalLoader_init(connection, IntervalStyle))

\* self.load(data), through the method the instance is bound to, under the
\* session parameters ds and ints of the time of the call
CallLoad(self, data, ds, ints) ==
    CASE self.cls = "DateLoader" -> DateLoader_load(self, data)
      [] self.cls = "TimeLoader" -> TimeLoader_load(self, data)
      [] self.cls = "TimeTzLoader" -> TimeTzLoader_load(self, data)
      [] self.cls = "TimestampLoader" -> TimestampLoader_load(self, data, ds)
      [] self.cls = "TimestamptzLoader" ->
            IF self.method = "load" THEN TimestamptzLoader_load(self, data, ds)
            ELSE TimestamptzLoader_load_notimpl(self, data, ds)
      [] self.cls = "IntervalLoader" ->
            IF self.method = "load" THEN IntervalLoader_load(self, data)
            ELSE IntervalLoader_load_notimpl(self, data, ints)

\* self.dump(obj), through the method the instance is bound to
CallDump(self, obj) ==
    CASE self.cls = "DateDumper" -> DateDumper_dump(self, obj)
      [] self.cls = "TimeDeltaDumper" ->
            IF self.method = "dump" THEN TimeDeltaDumper_dump(self, obj)
            ELSE TimeDeltaDumper_dump_sql(self, obj)

\* The texts the loader under study is handed
LoadInputs ==
    CASE adapter.cls = "DateLoader" -> DateTexts(DateStyle)
      [] adapter.cls = "TimeLoader" -> TimeTexts
      [] adapter.cls = "TimeTzLoader" -> TimeTzTexts
      [] adapter.cls = "TimestampLoader" -> TimestampTexts(DateStyle)
      [] adapter.cls = "TimestamptzLoader" -> TimestamptzTexts(DateStyle)
      [] adapter.cls = "IntervalLoader" -> IntervalTexts
      [] OTHER -> {}

Load(data) ==
    /\ Idle
    /\ result' = Outcome("load", data, CallLoad(adapter, data, DateStyle, IntervalStyle))
    /\ UNCHANGED <<DateStyle, IntervalStyle, adapter>>

DumpDate(obj) ==
    /\ Idle
    /\ adapter.cls = "DateDumper"
    /\ result' = Outcome("dump", obj, CallDump(adapter, obj))
    /\ UNCHANGED <<DateStyle, IntervalStyle, adapter>>

\* The timedelta is built from its arguments, then dumped
DumpTimedelta(args) ==
    /\ Idle
    /\ adapter.cls = "TimeDeltaDumper"
    /\ result' = Outcome("dump", args, CallDump(adapter, TimedeltaOf(args[1], args[2], args[3])))
    /\ UNCHANGED <<DateStyle, IntervalStyle, adapter>>

\* The caller takes the outcome of the call
TakeResult ==
    /\ ~Idle
    /\ result' = NoCall
    /\ UNCHANGED <<DateStyle, IntervalStyle, adapter>>

\* The adapters of the date and time types: they read DateStyle only
DateNext ==
    \/ \E v \in DateStyleValues : SetDateStyle(v)
    \/ \E c \in BOOLEAN : NewDateDumper(c)
    \/ \E c \in BOOLEAN : NewDateLoader(c)
    \/ \E c \in BOOLEAN : NewTimeLoader(c)
    \/ \E c \in BOOLEAN : NewTimeTzLoader(c)
    \/ \E c \in BOOLEAN : NewTimestampLoader(c)
    \/ \E c \in BOOLEAN : NewTimestamptzLoader(c)
    \/ \E data \in LoadInputs : Load(data)
    \/ \E obj \in DateValues : DumpDate(obj)
    \/ TakeResult

\* The adapters of the interval type: they read IntervalStyle only
IntervalNext ==
    \/ \E v \in IntervalStyleValues : SetIntervalStyle(v)
    \/ \E c \in BOOLEAN : NewTimeDeltaDumper(c)
    \/ \E c \in BOOLEAN : NewIntervalLoader(c)
    \/ \E data \in LoadInputs : Load(data)
    \/ \E args \in TimedeltaArgs : DumpTimedelta(args)
    \/ TakeResult

Next == DateNext \/ IntervalNext

Spec == Init /\ [][Next]_vars

\* Each family of adapters on its own: the parameter the family never reads
\* keeps its value, which leaves the family's behaviours as they are in Spec
DateInit == Init /\ IntervalStyle = Unset

DateSpec == DateInit /\ [][DateNext]_vars

IntervalInit == Init /\ DateStyle = Unset

IntervalSpec == IntervalInit /\ [][IntervalNext]_vars

(***************************************************************************)
(* Properties.  A state in which result.op is "load" or "dump" is the state *)
(* right after the call: result holds its argument and its outcome, and     *)
(* DateStyle and IntervalStyle are the session's values during the call.    *)
(***************************************************************************)
Loaded(cls) == result.op = "load" /\ adapter.cls = cls

Dumped(cls) == result.op = "dump" /\ adapter.cls = cls

\* The DateStyle the adapter resolved when it was constructed
ResolvedDateStyle == DateLoader_get_datestyle(adapter, adapter.read.DateStyle)

\* The text v is a part of the message
Names(msg, v) == \E i \in 2..Len(msg) : msg[i] = v

\* C1: once a decoder is constructed, the outcome of every later call (the
\* value returned or the kind of error raised) is the one the call has under
\* the DateStyle / IntervalStyle read at construction, whatever the session
\* parameters have become since; the recovery after a failed parse included.
C1_FrozenGrammar ==
    result.op = "load" =>
        LET frozen == CallLoad(adapter, result.arg, adapter.read.DateStyle,
                               adapter.read.IntervalStyle)
        IN  result.kind = frozen.kind /\ result.value = frozen.value

\* C2: a timestamp-with-zone decoder constructed while DateStyle resolves to
\* a German, SQL or Postgres variant fails every load with
\* NotImplementedError, for every input byte string.
C2_NonIsoNotImplemented ==
    (Loaded("TimestamptzLoader") /\ ResolvedDateStyle[1] \in {"G", "S", "P"})
        => result.kind = "NotImplementedError"

\* C3: for every DateStyle whose first letter is none of I, G, S, P,
\* constructing a date, timestamp or timestamp-with-zone decoder on the
\* connection fails with InterfaceError, and the message names the value.
C3_UnknownDateStyle ==
    (/\ result.op = "init"
     /\ result.arg[1] \in {"DateLoader", "TimestampLoader", "TimestamptzLoader"}
     /\ result.arg[2]
     /\ DateStyle.set /\ DateStyle.val # <<>>
     /\ DateStyle.val[1] \notin {"I", "G", "S", "P"})
        => result.kind = "InterfaceError" /\ Names(result.msg, DateStyle.val)

\* C4: an interval decoder parses with the postgres grammar if and only if
\* it was constructed with no connection or with IntervalStyle b"postgres";
\* in every other case every load fails with NotImplementedError and the
\* message names the style of the live session.
C4_IntervalStyleRouting ==
    Loaded("IntervalLoader") =>
        IF ~adapter.connection \/ adapter.read.IntervalStyle = Param(<<"p", "o", "s", "t", "g", "r", "e", "s">>)
        THEN LET parsed == IntervalLoader_load(adapter, result.arg)
             IN  result.kind = parsed.kind /\ result.value = parsed.value
        ELSE /\ result.kind = "NotImplementedError"
             /\ IntervalStyle.set => Names(result.msg, IntervalStyle.val)

\* YYYY-MM-DD of a date
IsIsoTextOf(b, obj) ==
    /\ Len(b) = 10 /\ b[5] = "-" /\ b[8] = "-"
    /\ AllDigits(SubSeq(b, 1, 4)) /\ AllDigits(SubSeq(b, 6, 7)) /\ AllDigits(SubSeq(b, 9, 10))
    /\ Int10(SubSeq(b, 1, 4)) = obj.year
    /\ Int10(SubSeq(b, 6, 7)) = obj.month
    /\ Int10(SubSeq(b, 9, 10)) = obj.day

\* C5: under each of the four DateStyle families and both orderings, a date
\* decoder constructed under the style decodes the server's text of a date d
\* in that style to exactly d, for years 1 to 9999; and the encoder's text of
\* d is YYYY-MM-DD whatever the DateStyle is.
C5_DateRoundTrip ==
    /\ (Loaded("DateLoader") /\ adapter.connection /\ adapter.read.DateStyle.set)
         => \A d \in DateValues :
               result.arg = PgDate(d, adapter.read.DateStyle.val)
                   => result.kind = "ok" /\ result.value = d
    /\ Dumped("DateDumper")
         => result.kind = "ok" /\ IsIsoTextOf(result.value.bytes, result.arg)

C5_Witness ==
    /\ Loaded("DateLoader")
    /\ adapter.read.DateStyle = Param(<<"S", "Q", "L", ",", " ", "M", "D", "Y">>)
    /\ result.arg = <<"1", "2", "/", "1", "3", "/", "2", "0", "2", "4">>
    /\ result.kind = "ok"
    /\ result.value = Date(2024, 12, 13)

DigitCount(s) == Cardinality({i \in 1..Len(s) : IsDigit(s[i])})

\* The year field of a date or timestamp text: the field in the place %Y has
\* in the format
YearField(fmt, data) ==
    IF fmt[2] = "a"
    THEN LET w == SplitWhitespace(data)
         IN  IF Len(w) >= 5 THEN w[5] ELSE <<>>
    ELSE LET parts == Split(Split(data, " ")[1], fmt[3])
             i == IF fmt[2] = "Y" THEN 1 ELSE 3
         IN  IF Len(parts) >= i THEN parts[i] ELSE <<>>

\* C6: when the parse of a date or timestamp text fails, the decoder raises
\* DataError naming BC dates if the text ends with BC; otherwise DataError
\* naming years after 9999 if the year field has more than four digits;
\* otherwise the parse error: a text with no BC marker and a year field of
\* at most four digits is never reported as a DataError.
C6_RecoveryClassifier ==
    (result.op = "load" /\ adapter.cls \in {"DateLoader", "TimestampLoader"}
     /\ result.kind # "ok")
        => IF EndsWith(result.arg, <<"B", "C">>)
           THEN /\ result.kind = "DataError"
                /\ result.msg[1] = "Python doesn't support BC date: got "
           ELSE IF DigitCount(YearField(adapter.format, result.arg)) > 4
           THEN /\ result.kind = "DataError"
                /\ result.msg[1] = "Python date doesn't support years after 9999: got "
           ELSE result.kind \in {"ValueError", "UnicodeDecodeError"}

\* The groups span the whole text, and the fraction is of microseconds
WellFormedInterval(data) ==
    data # <<>> /\ re_interval_match(data).rest = <<>>
    /\ Len(re_interval_match(data).fraction) <= 6

\* 365 * Y + 30 * M + D days and s * (3600 * HH + 60 * MM + SS.f) seconds,
\* to the microsecond
ExactDuration(m) ==
    LET days == (IF m.years # <<>> THEN 365 * SignedInt(m.years) ELSE 0)
                + (IF m.months # <<>> THEN 30 * SignedInt(m.months) ELSE 0)
                + (IF m.days # <<>> THEN SignedInt(m.days) ELSE 0)
        hours == IF m.hours # <<>> THEN Int10(m.hours) ELSE 0
        minsec == IF m.hours # <<>> THEN 60 * Int10(m.minutes) + Int10(m.seconds) ELSE 0
    IN  NewTimedelta(days, m.hsign = <<"-">>, hours + minsec \div 3600, minsec % 3600,
                     FractionMicros(m.fraction))

\* C7: for every text [Y years] [M mons] [D days] [[sign]HH:MM:SS[.f]] the
\* decoded duration is 365 * Y + 30 * M + D days plus
\* s * (3600 * HH + 60 * MM + SS.f) seconds, the sign s applying to hours,
\* minutes and seconds jointly; "2 years 3 mons 4 days 01:02:03.5" gives
\* 824 days and 3723.5 seconds.
C7_IntervalArithmetic ==
    (Loaded("IntervalLoader") /\ adapter.method = "load" /\ result.kind = "ok"
     /\ WellFormedInterval(result.arg))
        => /\ result.value = ExactDuration(re_interval_match(result.arg)).value
           /\ result.arg = <<"2", " ", "y", "e", "a", "r", "s", " ", "3", " ", "m", "o", "n", "s", " ", "4", " ", "d", "a", "y", "s", " ", "0", "1", ":", "0", "2", ":", "0", "3", ".", "5">>
                  => result.value = Timedelta(824, 3723, 500000)

NoGroupMatches(data) ==
    LET m == re_interval_match(data)
    IN  m.years = <<>> /\ m.months = <<>> /\ m.days = <<>> /\ m.hours = <<>>

\* C8: for every input in which none of the groups years, mons, days and
\* time of day matches, the postgres-style interval decoder fails with the
\* error of a malformed interval, the message including the raw text; it
\* never returns a duration.
C8_MalformedInterval ==
    (Loaded("IntervalLoader") /\ adapter.method = "load" /\ NoGroupMatches(result.arg))
        => /\ result.kind \in {"ValueError", "DataError"}
           /\ Names(result.msg, DecodeReplace(result.arg))

\* A number with its sign written: +0, -1, +86399
IsSignedNumber(w) == Len(w) >= 2 /\ w[1] \in {"+", "-"} /\ AllDigits(Tail(w))

\* The fields d, s, us add up to timedelta(days, seconds, microseconds) of args
SumsTo(d, s, us, args) ==
    LET diff == (d * SecondsPerDay + s) - (args[1] * SecondsPerDay + args[2])
    IN  diff \in (0 - 2)..2 /\ diff * Million = args[3] - us

IsSqlStandardText(b, args) ==
    LET w == Split(b, " ")
    IN  /\ Len(w) = 6
        /\ w[2] = <<"d", "a", "y">> /\ w[4] = <<"s", "e", "c", "o", "n", "d">> /\ w[6] = <<"m", "i", "c", "r", "o", "s", "e", "c", "o", "n", "d">>
        /\ IsSignedNumber(w[1]) /\ IsSignedNumber(w[3]) /\ IsSignedNumber(w[5])
        /\ SumsTo(SignedInt(w[1]), SignedInt(w[3]), SignedInt(w[5]), args)

\* C9: an interval encoder constructed with a connection whose IntervalStyle
\* is b"sql_standard" emits "<days> day <seconds> second <microseconds>
\* microsecond" with a sign on each of the three fields, the fields summing to
\* the duration; (days=-1, seconds=1) gives "-1 day +1 second +0 microsecond".
\* An encoder constructed with no connection or under any other IntervalStyle
\* emits the natural string form.
C9_SqlStandardEncoding ==
    Dumped("TimeDeltaDumper") =>
        /\ result.kind = "ok"
        /\ IF adapter.connection /\ adapter.read.IntervalStyle = Param(<<"s", "q", "l", "_", "s", "t", "a", "n", "d", "a", "r", "d">>)
           THEN /\ IsSqlStandardText(result.value.bytes, result.arg)
                /\ result.arg = <<0 - 1, 1, 0>>
                       => result.value.bytes = <<"-", "1", " ", "d", "a", "y", " ", "+", "1", " ", "s", "e", "c", "o", "n", "d", " ", "+", "0", " ", "m", "i", "c", "r", "o", "s", "e", "c", "o", "n", "d">>
           ELSE /\ result.value.bytes
                       = TimedeltaStr(TimedeltaOf(result.arg[1], result.arg[2], result.arg[3]))
                /\ result.arg = <<0 - 1, 1, 0>> => result.value.bytes = <<"-", "1", " ", "d", "a", "y", ",", " ", "0", ":", "0", "0", ":", "0", "1">>

C9_Witness ==
    /\ Dumped("TimeDeltaDumper")
    /\ adapter.read.IntervalStyle = Param(<<"s", "q", "l", "_", "s", "t", "a", "n", "d", "a", "r", "d">>)
    /\ IntervalStyle # Param(<<"s", "q", "l", "_", "s", "t", "a", "n", "d", "a", "r", "d">>)
    /\ result.arg = <<0 - 1, 1, 0>>
    /\ result.value.bytes = <<"-", "1", " ", "d", "a", "y", " ", "+", "1", " ", "s", "e", "c", "o", "n", "d", " ", "+", "0", " ", "m", "i", "c", "r", "o", "s", "e", "c", "o", "n", "d">>

\* The text ends with a digit, a sign and two digits: the offset is +-HH, of
\* at most 15 hours as the server's offsets are
ShortOffsetText(data) ==
    /\ Len(data) >= 4
    /\ IsDigit(data[Len(data) - 3]) /\ data[Len(data) - 2] \in {"+", "-"}
    /\ IsDigit(data[Len(data) - 1]) /\ IsDigit(data[Len(data)])
    /\ Int10(Drop(data, Len(data) - 2)) <= 15

\* A time-with-zone decoder, or a timestamp-with-zone decoder under ISO
ZoneDecoder ==
    Loaded("TimeTzLoader") \/ (Loaded("TimestamptzLoader") /\ adapter.method = "load")

\* The outcome of decoding the text with "00" appended
WithMinutes == CallLoad(adapter, result.arg \o <<"0", "0">>, DateStyle, IntervalStyle)

Zone(o) == [aware |-> TRUE, seconds |-> OffsetSeconds(o), microseconds |-> 0]

\* C10 as stated: for every time-with-zone text and every ISO
\* timestamp-with-zone text whose offset is +-HH only, decoding succeeds and
\* returns the value of the same text with "00" appended.
C10_ShortOffsetSucceeds ==
    (ZoneDecoder /\ ShortOffsetText(result.arg))
        => result.kind = "ok" /\ result.value = WithMinutes.value

\* C10, amended: for every such text the outcome, a value or an error, is the
\* outcome of the same text with "00" appended; the server's text of a time of
\* day below 24:00 or of a timestamp of the years 1 to 9999 decodes to that
\* value at that offset, whether the offset is printed as +-HH or with minutes.
C10_OffsetNormalization ==
    /\ (ZoneDecoder /\ ShortOffsetText(result.arg))
         => /\ result.kind = WithMinutes.kind
            /\ result.value = WithMinutes.value
            /\ result.msg = WithMinutes.msg
    /\ Loaded("TimeTzLoader")
         => \A t \in TimeValues, o \in Offsets :
               result.arg = PgTime(t) \o PgOffset(o)
                   => /\ result.kind = "ok"
                      /\ result.value
                            = [type |-> "time", hour |-> t[1], minute |-> t[2], second |-> t[3],
                               microsecond |-> t[4], tzinfo |-> Zone(o)]
    /\ (Loaded("TimestamptzLoader") /\ adapter.method = "load")
         => \A obj \in TimestamptzDates, t \in TimeValues, o \in Offsets :
               result.arg = PgTimestamptz(obj, t, o)
                   => /\ result.kind = "ok"
                      /\ result.value
                            = [type |-> "datetime", year |-> obj.year, month |-> obj.month,
                               day |-> obj.day, hour |-> t[1], minute |-> t[2],
                               second |-> t[3], microsecond |-> t[4], tzinfo |-> Zone(o)]

C10_Witness ==
    /\ Loaded("TimeTzLoader")
    /\ result.arg = <<"1", "0", ":", "2", "0", ":", "3", "0", "+", "0", "2">>
    /\ result.kind = "ok"
    /\ result.value.hour = 10
    /\ result.value.tzinfo = Zone(<<"+", 2, 0>>)
====
